---- MODULE Spec2Model ----
(***************************************************************************)
(* A model of pyff/samlmd.py: the merge/aggregation engine                 *)
(* (entitiesdescriptor), the filter engine (filter_invalids_from_document),*)
(* the parser pipeline (parse_saml_metadata), the expiration              *)
(* calculators (metadata_expiration, expiration), the provenance mutators  *)
(* (set_pubinfo, set_reginfo, set_entity_attributes) and EntitySet.        *)
(*                                                                         *)
(* XML elements live in a heap: heap[o] is the EntityDescriptor element    *)
(* with object identity o.  A container is a sequence of object ids (its   *)
(* children in document order).  lxml's append MOVES an element that       *)
(* already has a parent, deepcopy allocates a new, parentless element.     *)
(***************************************************************************)
EXTENDS Integers, Sequences, FiniteSets, TLC

\* heap, docs, merge: the merge engine and its source pool.  filt: the filter
\* engine.  pars: the parser pipeline.  expi: the expiration calculator.
\* prov: the provenance mutators.  eattr: set_entity_attributes.  eset: an
\* EntitySet.  expn: the second expiration calculator (expiration).
VARIABLES heap, docs, merge, filt, pars, expi, prov, eattr, eset, expn

\* Python's None, for attribute values and exception slots.
None == "None"

\* ---------------------------------------------------------------- bounds
\* Longest list of entity references handed to entitiesdescriptor.
MaxRefs == 2
\* How many in-place mutations of the sources follow a merge.
MaxMutations == 1

\* ------------------------------------------------------------- elements
EntityIDs == {"a", "b"}

\* An EntityDescriptor element: its entityID attribute (None when missing),
\* whether its subtree is schema-valid, its payload (body: which record it
\* is; rev: how often it was edited in place).  The schema requires
\* entityID, so an element without one is never valid.
ElementValues(b) ==
    { [eid |-> e, valid |-> v, body |-> b, rev |-> 0] :
        e \in EntityIDs, v \in BOOLEAN }
    \cup { [eid |-> None, valid |-> FALSE, body |-> b, rev |-> 0] }

\* Source pool: three records in two source documents.
SourceIds == {1, 2, 3}
SourceDocs == << <<1, 2>>, <<3>> >>

\* Entity references: a direct element, or a group name handed to lookup_fn.
\* Group 0 is a name the lookup knows nothing about.
GroupNames == {0, 1, 2}
Refs == { [kind |-> "direct", n |-> o] : o \in SourceIds }
        \cup { [kind |-> "group", n |-> g] : g \in GroupNames }

RECURSIVE SeqsUpTo(_, _)
SeqsUpTo(S, n) ==
    IF n = 0 THEN { <<>> }
    ELSE LET shorter == SeqsUpTo(S, n - 1)
         IN  shorter \cup { Append(s, x) : s \in { t \in shorter : Len(t) = n - 1 }, x \in S }

\* s without its first occurrence of x.
RECURSIVE RemoveFirst(_, _)
RemoveFirst(s, x) ==
    IF s = <<>> THEN <<>>
    ELSE IF Head(s) = x THEN Tail(s)
    ELSE <<Head(s)>> \o RemoveFirst(Tail(s), x)

\* lxml: an element has at most one parent; appending it elsewhere detaches
\* it from the document that held it.
Detach(ds, o) == [d \in DOMAIN ds |-> RemoveFirst(ds[d], o)]

\* copy.deepcopy(ent): a new element with the same content and no parent.
Deepcopy(h, o) == Append(h, h[o])

\* utils.validate_document on an EntitiesDescriptor: the schema wants at
\* least one member and every member's subtree valid.
ValidateDocument(h, kids) ==
    /\ Len(kids) > 0
    /\ \A i \in DOMAIN kids : h[kids[i]].valid

\* lookup_fn(member), evaluated when the loop reaches the member: the
\* records of the named source document, nothing for an unknown name.
LookupFn(ds, g) == IF g \in DOMAIN ds THEN ds[g] ELSE <<>>

\* ------------------------------------------------- entitiesdescriptor
\* The loop state of entitiesdescriptor: the heap and the source documents,
\* t (the children of the new EntitiesDescriptor), seen, nent; from and
\* resolved are bookkeeping of which source element each member and each
\* _insert call came from.
MergeStart(h, ds) ==
    [heap |-> h, docs |-> ds, t |-> <<>>, seen |-> {}, nent |-> 0,
     from |-> <<>>, resolved |-> <<>>]

\* _insert with the seen check dropped.
InsertNoDedup(st, ent, copy) ==
    LET entity_id == st.heap[ent].eid
        base == [st EXCEPT !.resolved = Append(@, ent)]
    IN  IF entity_id # None
        THEN IF copy
             THEN [base EXCEPT !.heap = Deepcopy(st.heap, ent),
                               !.t = Append(@, Len(st.heap) + 1),
                               !.from = Append(@, ent)]
             ELSE [base EXCEPT !.docs = Detach(st.docs, ent),
                               !.t = Append(@, ent),
                               !.from = Append(@, ent)]
        ELSE base

\* _insert with the copy flag ignored: the element itself is appended.
InsertNoCopy(st, ent, copy) ==
    LET entity_id == st.heap[ent].eid
        base == [st EXCEPT !.resolved = Append(@, ent)]
    IN  IF entity_id # None /\ entity_id \notin st.seen
        THEN [base EXCEPT !.docs = Detach(st.docs, ent),
                          !.t = Append(@, ent),
                          !.from = Append(@, ent),
                          !.seen = @ \cup {entity_id}]
        ELSE base

\* _insert(ent)
Insert(st, ent, copy) ==
    LET entity_id == st.heap[ent].eid
        base == [st EXCEPT !.resolved = Append(@, ent)]
    IN  IF entity_id # None /\ entity_id \notin st.seen
        THEN IF copy
             THEN [base EXCEPT !.heap = Deepcopy(st.heap, ent),
                               !.t = Append(@, Len(st.heap) + 1),
                               !.from = Append(@, ent),
                               !.seen = @ \cup {entity_id}]
             ELSE [base EXCEPT !.docs = Detach(st.docs, ent),
                               !.t = Append(@, ent),
                               !.from = Append(@, ent),
                               !.seen = @ \cup {entity_id}]
        ELSE base

\* for entity in lookup_fn(member): _insert(entity); nent += 1
RECURSIVE InsertEach(_, _, _)
InsertEach(st, ents, copy) ==
    IF ents = <<>> THEN st
    ELSE InsertEach([Insert(st, Head(ents), copy) EXCEPT !.nent = @ + 1],
                    Tail(ents), copy)

\* for member in entities: ...
RECURSIVE MergeLoop(_, _, _)
MergeLoop(st, entities, copy) ==
    IF entities = <<>> THEN st
    ELSE LET member == Head(entities)
             after == IF member.kind = "direct"
                      THEN [Insert(st, member.n, copy) EXCEPT !.nent = @ + 1]
                      ELSE InsertEach(st, LookupFn(st.docs, member.n), copy)
         IN  MergeLoop(after, Tail(entities), copy)

\* entitiesdescriptor(entities, name, lookup_fn, validate=, copy=): the
\* heap and documents it leaves, and what it returns or raises.
EntitiesDescriptor(h, ds, entities, validate, copy) ==
    LET st == MergeLoop(MergeStart(h, ds), entities, copy)
        out == [heap |-> st.heap, docs |-> st.docs, nent |-> st.nent,
                from |-> st.from, resolved |-> st.resolved,
                raised |-> None, present |-> FALSE, kids |-> <<>>]
    IN  IF st.nent = 0
        THEN out
        ELSE IF validate /\ ~ValidateDocument(st.heap, st.t)
        THEN [out EXCEPT !.raised = "MetadataException"]
        ELSE [out EXCEPT !.present = TRUE, !.kids = st.t]

\* ------------------------------------------------------ merge machine
MergeIdle ==
    [called |-> FALSE, entities |-> <<>>, validate |-> FALSE, copy |-> FALSE,
     raised |-> None, present |-> FALSE, kids |-> <<>>, nent |-> 0,
     from |-> <<>>, resvals |-> <<>>, kidvals |-> <<>>, muts |-> 0]

vars == <<heap, docs, merge, filt, pars, expi, prov, eattr, eset, expn>>

\* The source pools a merge may start from.
SourceHeaps ==
    { <<x, y, z>> : x \in ElementValues(1), y \in ElementValues(2),
                    z \in ElementValues(3) }

\* One call of entitiesdescriptor on the source pool.
CallEntitiesDescriptor ==
    /\ ~merge.called
    /\ \E entities \in SeqsUpTo(Refs, MaxRefs), validate \in BOOLEAN, copy \in BOOLEAN :
         LET r == EntitiesDescriptor(heap, docs, entities, validate, copy)
         IN  /\ heap' = r.heap
             /\ docs' = r.docs
             /\ merge' = [called |-> TRUE, entities |-> entities,
                          validate |-> validate, copy |-> copy,
                          raised |-> r.raised, present |-> r.present,
                          kids |-> r.kids, nent |-> r.nent, from |-> r.from,
                          resvals |-> [i \in DOMAIN r.resolved |-> heap[r.resolved[i]]],
                          kidvals |-> [i \in DOMAIN r.kids |-> r.heap[r.kids[i]]],
                          muts |-> 0]
    /\ UNCHANGED <<filt, pars, expi, prov, eattr, eset, expn>>

\* After the merge returned an aggregate, a caller edits a source record in
\* place.
MutateSource ==
    /\ merge.present
    /\ merge.muts < MaxMutations
    /\ \E o \in SourceIds :
         /\ heap' = [heap EXCEPT ![o].rev = @ + 1]
         /\ docs' = docs
         /\ merge' = [merge EXCEPT !.muts = @ + 1]
    /\ UNCHANGED <<filt, pars, expi, prov, eattr, eset, expn>>

\* After the merge returned an aggregate, a caller removes a record from its
\* source document.
DropFromSource ==
    /\ merge.present
    /\ merge.muts < MaxMutations
    /\ \E d \in DOMAIN docs :
         /\ docs[d] # <<>>
         /\ docs' = [docs EXCEPT ![d] = Tail(@)]
         /\ heap' = heap
         /\ merge' = [merge EXCEPT !.muts = @ + 1]
    /\ UNCHANGED <<filt, pars, expi, prov, eattr, eset, expn>>

MergeNext == CallEntitiesDescriptor \/ MutateSource \/ DropFromSource

\* --------------------------------------- filter_invalids_from_document
\* Most records of a document handed to the filter.
MaxDocRecords == 3

\* A parsed document: the root's tag, the elements, and the root's
\* EntityDescriptor children in document order (for an EntityDescriptor
\* root, element 1 is the root itself and there are no children).
EntityDescriptorTag == "EntityDescriptor"
EntitiesDescriptorTag == "EntitiesDescriptor"

DocIDs == {"a", "b", "c"}
DocElements(b) ==
    { [eid |-> e, valid |-> v, body |-> b, rev |-> 0] : e \in DocIDs, v \in BOOLEAN }
    \cup { [eid |-> None, valid |-> FALSE, body |-> b, rev |-> 0] }

RECURSIVE DocHeaps(_)
DocHeaps(n) ==
    IF n = 0 THEN { <<>> }
    ELSE { Append(h, x) : h \in DocHeaps(n - 1), x \in DocElements(n) }

Documents ==
    { [tag |-> EntitiesDescriptorTag, heap |-> h, kids |-> [i \in DOMAIN h |-> i]] :
        h \in UNION { DocHeaps(n) : n \in 0..MaxDocRecords } }
    \cup { [tag |-> EntityDescriptorTag, heap |-> h, kids |-> <<>>] : h \in DocHeaps(1) }

\* iter_entities(t): t.iter(EntityDescriptor), the root itself included.
IterEntities(t) == IF t.tag = EntityDescriptorTag THEN <<1>> ELSE t.kids

\* The element lxml's iterator hands out after e: it is looked up before e
\* is handed to the loop body, so removing e does not disturb it.  0: none.
NextEntity(t, e) ==
    LET s == IterEntities(t)
        at == CHOOSE i \in DOMAIN s : s[i] = e
    IN  IF at < Len(s) THEN s[at + 1] ELSE 0

\* e.getparent() is None
HasParent(t, e) == t.tag = EntitiesDescriptorTag

\* validation_errors[entity_id] = error; the diagnostic names the record.
DictSet(d, k, v) == { x \in d : x.key # k } \cup { [key |-> k, diag |-> v] }

\* The loop body that forgets to record the error.
FilterVisitNoRecord(t, errs, e) ==
    IF t.heap[e].valid
    THEN [t |-> t, errs |-> errs, absent |-> FALSE]
    ELSE IF ~HasParent(t, e)
         THEN [t |-> t, errs |-> errs, absent |-> TRUE]
         ELSE [t |-> [t EXCEPT !.kids = RemoveFirst(@, e)], errs |-> errs,
               absent |-> FALSE]

\* The loop body of filter_invalids_from_document for the element e.
FilterVisit(t, errs, e) ==
    IF t.heap[e].valid
    THEN [t |-> t, errs |-> errs, absent |-> FALSE]
    ELSE LET errs2 == DictSet(errs, t.heap[e].eid, t.heap[e].body)
         IN  IF ~HasParent(t, e)
             THEN [t |-> t, errs |-> errs2, absent |-> TRUE]
             ELSE [t |-> [t EXCEPT !.kids = RemoveFirst(@, e)], errs |-> errs2,
                   absent |-> FALSE]

\* for e in iter_entities(t): ...
RECURSIVE FilterLoop(_, _, _)
FilterLoop(t, errs, e) ==
    IF e = 0
    THEN [present |-> TRUE, t |-> t, errs |-> errs]
    ELSE LET nxt == NextEntity(t, e)
             v == FilterVisit(t, errs, e)
         IN  IF v.absent
             THEN [present |-> FALSE, t |-> t, errs |-> v.errs]
             ELSE FilterLoop(v.t, v.errs, nxt)

\* filter_invalids_from_document(t, base_url, validation_errors)
FilterInvalidsFromDocument(t, errs) ==
    LET s == IterEntities(t)
    IN  FilterLoop(t, errs, IF s = <<>> THEN 0 ELSE s[1])

FilterIdle(d) ==
    [called |-> FALSE, doc |-> d, present |-> FALSE, kids |-> <<>>, errs |-> {}]

FilterInits == { FilterIdle(d) : d \in Documents }

\* One call of filter_invalids_from_document with an empty error map.
CallFilterInvalids ==
    /\ ~filt.called
    /\ LET r == FilterInvalidsFromDocument(filt.doc, {})
       IN  filt' = [filt EXCEPT !.called = TRUE, !.present = r.present,
                                !.kids = r.t.kids, !.errs = r.errs]
    /\ UNCHANGED <<heap, docs, merge, pars, expi, prov, eattr, eset, expn>>

FilterNext == CallFilterInvalids

\* ------------------------------------------------- metadata_expiration
\* datetime keeps microseconds: a datetime is [s, us] (whole seconds since
\* some epoch, microsecond field); a timedelta is [s, us] too, normalised as
\* Python does it (0 <= us < 10^6, s possibly negative).
MicrosPerSecond == 1000000

\* The instants validUntil and utcnow() are drawn from.  SAML metadata
\* states validUntil in UTC, as utcnow() is.
Datetimes == [s : {0, 3600, 7200}, us : {0, 250000, 999999}]

\* datetime.replace(microsecond=0)
DropMicros(dt) == [dt EXCEPT !.us = 0]

\* datetime - datetime
Minus(a, b) ==
    IF a.us >= b.us
    THEN [s |-> a.s - b.s, us |-> a.us - b.us]
    ELSE [s |-> a.s - b.s - 1, us |-> a.us - b.us + MicrosPerSecond]

Seconds(n) == [s |-> n, us |-> 0]

\* utils.duration2timedelta on the duration literals of the model.
DurationLiterals == {"PT1H", "PT2H"}
Duration2Timedelta(d) == IF d = "PT1H" THEN Seconds(3600) ELSE Seconds(7200)

\* A root element as the calculator reads it: its tag, validUntil (absent,
\* or the datetime utils.iso2datetime makes of it) and cacheDuration (None
\* when missing, possibly the empty string).
OtherTag == "Other"
RootTags == {EntityDescriptorTag, EntitiesDescriptorTag, OtherTag}
NoValidUntil == [has |-> FALSE, s |-> 0, us |-> 0]
ValidUntils ==
    {NoValidUntil} \cup { [has |-> TRUE, s |-> dt.s, us |-> dt.us] : dt \in Datetimes }
CacheDurations == {None, ""} \cup DurationLiterals
Roots == [tag : RootTags, validUntil : ValidUntils, cacheDuration : CacheDurations]

\* config.respect_cache_duration, config.default_cache_duration
Configs == [respect_cache_duration : BOOLEAN, default_cache_duration : DurationLiterals]

NoHint == [hint |-> FALSE, delta |-> Seconds(0)]

\* metadata_expiration that subtracts first and drops the microseconds of
\* the difference afterwards.
MetadataExpirationTruncLate(relt, config, utcnow) ==
    IF relt.tag \in {EntityDescriptorTag, EntitiesDescriptorTag}
    THEN IF relt.validUntil.has
         THEN LET d == Minus([s |-> relt.validUntil.s, us |-> relt.validUntil.us], utcnow)
              IN  [hint |-> TRUE, delta |-> Seconds(d.s)]
         ELSE IF config.respect_cache_duration
         THEN LET declared == IF relt.cacheDuration = None
                              THEN config.default_cache_duration
                              ELSE relt.cacheDuration
                  cache_duration == IF declared = ""
                                    THEN config.default_cache_duration
                                    ELSE declared
              IN  [hint |-> TRUE, delta |-> Duration2Timedelta(cache_duration)]
         ELSE NoHint
    ELSE NoHint

\* metadata_expiration(t), relt being root(t), at the instant utcnow.
MetadataExpiration(relt, config, utcnow) ==
    IF relt.tag \in {EntityDescriptorTag, EntitiesDescriptorTag}
    THEN IF relt.validUntil.has
         THEN LET now == DropMicros(utcnow)
                  vu == DropMicros([s |-> relt.validUntil.s, us |-> relt.validUntil.us])
              IN  [hint |-> TRUE, delta |-> Minus(vu, now)]
         ELSE IF config.respect_cache_duration
         THEN LET declared == IF relt.cacheDuration = None
                              THEN config.default_cache_duration
                              ELSE relt.cacheDuration
                  cache_duration == IF declared = ""
                                    THEN config.default_cache_duration
                                    ELSE declared
              IN  [hint |-> TRUE, delta |-> Duration2Timedelta(cache_duration)]
         ELSE NoHint
    ELSE NoHint

ExpirationIdle(r, c) ==
    [called |-> FALSE, root |-> r, config |-> c, now |-> [s |-> 0, us |-> 0],
     result |-> NoHint]

ExpirationInits == { ExpirationIdle(r, c) : r \in Roots, c \in Configs }

\* A call of metadata_expiration at some instant; it may be called again.
CallMetadataExpiration ==
    /\ \E utcnow \in Datetimes :
         expi' = [expi EXCEPT !.called = TRUE, !.now = utcnow,
                              !.result = MetadataExpiration(expi.root, expi.config, utcnow)]
    /\ UNCHANGED <<heap, docs, merge, filt, pars, prov, eattr, eset, expn>>

\* What a caller returns of utils.duration2timedelta(d): the timedelta of a
\* duration literal, None for a string that holds no duration.
Duration2TimedeltaOrNone(d) ==
    IF d \in DurationLiterals
    THEN [hint |-> TRUE, delta |-> Duration2Timedelta(d)]
    ELSE NoHint

\* expiration(t), relt being root(t), at the instant utcnow.
Expiration(relt, config, utcnow) ==
    IF relt.tag \in {EntityDescriptorTag, EntitiesDescriptorTag}
    THEN IF relt.validUntil.has
         THEN LET now == DropMicros(utcnow)
                  vu == DropMicros([s |-> relt.validUntil.s, us |-> relt.validUntil.us])
              IN  [hint |-> TRUE, delta |-> Minus(vu, now)]
         ELSE IF config.respect_cache_duration
         THEN LET cache_duration == IF relt.cacheDuration = None
                                    THEN config.default_cache_duration
                                    ELSE relt.cacheDuration
              IN  Duration2TimedeltaOrNone(cache_duration)
         ELSE NoHint
    ELSE NoHint

\* expn: the last call of expiration on the root and configuration of expi.
ExpnIdle == [called |-> FALSE, now |-> [s |-> 0, us |-> 0], result |-> NoHint]

\* A call of expiration at some instant; it may be called again.
CallExpiration ==
    /\ \E utcnow \in Datetimes :
         expn' = [called |-> TRUE, now |-> utcnow,
                  result |-> Expiration(expi.root, expi.config, utcnow)]
    /\ UNCHANGED <<heap, docs, merge, filt, pars, expi, prov, eattr, eset>>

ExpirationNext == CallMetadataExpiration \/ CallExpiration

\* --------------------------------------------------- parse_saml_metadata
\* Most records of a document handed to the parser.
MaxParseRecords == 2

\* A record of a source document also carries (or not) an ID attribute.
ParseElements(b) ==
    { [eid |-> e.eid, valid |-> e.valid, body |-> b, rev |-> 0, xmlid |-> x] :
        e \in ElementValues(b), x \in BOOLEAN }

RECURSIVE ParseHeaps(_)
ParseHeaps(n) ==
    IF n = 0 THEN { <<>> }
    ELSE { Append(h, x) : h \in ParseHeaps(n - 1), x \in ParseElements(n) }

\* What parse_xml makes of the source: a record, a container of records, or
\* some other XML without records.
ParseDocuments ==
    { [tag |-> EntitiesDescriptorTag, heap |-> h, kids |-> [i \in DOMAIN h |-> i]] :
        h \in UNION { ParseHeaps(n) : n \in 0..MaxParseRecords } }
    \cup { [tag |-> EntityDescriptorTag, heap |-> h, kids |-> <<>>] : h \in ParseHeaps(1) }
    \cup { [tag |-> OtherTag, heap |-> <<>>, kids |-> <<>>] }

\* The step of the try block at which a collaborator raises, if any:
\* parse_xml/xinclude, metadata_expiration (iso2datetime on a malformed
\* validUntil), check_signature, the ID stripping loop.
FaultSteps == {"none", "parse", "expire", "signature", "strip"}
FaultException(f) ==
    IF f = "parse" THEN "ParseError"
    ELSE IF f = "expire" THEN "ValueError"
    ELSE IF f = "signature" THEN "SignatureError"
    ELSE "StripError"

SchemaValidationFailed == "MetadataException: schema validation failed"
MergeValidationFailed == "MetadataException: XML schema validation failed"

\* The configuration and clock the pipeline's expiration step runs under.
ParseConfig == [respect_cache_duration |-> FALSE, default_cache_duration |-> "PT1H"]
ParseNow == [s |-> 0, us |-> 250000]
ParseValidUntils == {NoValidUntil, [has |-> TRUE, s |-> 3600, us |-> 999999]}

\* utils.validate_document on the whole tree.
ValidateTree(t) ==
    IF t.tag = EntitiesDescriptorTag THEN ValidateDocument(t.heap, t.kids)
    ELSE IF t.tag = EntityDescriptorTag THEN t.heap[1].valid
    ELSE FALSE

\* for e in iter_entities(t): if e.get('ID') is not None: del e.attrib['ID']
StripIds(t) == [t EXCEPT !.heap = [i \in DOMAIN @ |-> [@[i] EXCEPT !.xmlid = FALSE]]]

Raised(ex, errs) ==
    [exc |-> ex, present |-> FALSE,
     t |-> [tag |-> OtherTag, heap |-> <<>>, kids |-> <<>>],
     hint |-> NoHint, errs |-> errs]

\* if t is not None: if t.tag == EntityDescriptor:
\*     t = entitiesdescriptor([t], base_url, copy=False)
WrapSingle(v, expire_time_offset) ==
    IF v.present /\ v.t.tag = EntityDescriptorTag
    THEN LET r == EntitiesDescriptor(v.t.heap, <<>>, << [kind |-> "direct", n |-> 1] >>,
                                     TRUE, FALSE)
         IN  IF r.raised # None
             THEN Raised(MergeValidationFailed, v.errs)
             ELSE [exc |-> None, present |-> r.present,
                   t |-> [tag |-> EntitiesDescriptorTag, heap |-> r.heap, kids |-> r.kids],
                   hint |-> expire_time_offset, errs |-> v.errs]
    ELSE [exc |-> None, present |-> v.present, t |-> v.t,
          hint |-> expire_time_offset, errs |-> v.errs]

\* The body of the try block: the exception it ends with (None: it ran to
\* its end), and t and expire_time_offset at its end.
ParseTry(src, filter_invalid, validate) ==
    IF src.fault = "parse" THEN Raised(FaultException(src.fault), {})
    ELSE LET relt == [tag |-> src.doc.tag, validUntil |-> src.validUntil,
                      cacheDuration |-> None]
             expire_time_offset == MetadataExpiration(relt, ParseConfig, ParseNow)
         IN  IF src.fault \in {"expire", "signature", "strip"}
             THEN Raised(FaultException(src.fault), {})
             ELSE LET t == StripIds(src.doc)
                  IN  IF validate
                      THEN IF filter_invalid
                           THEN LET f == FilterInvalidsFromDocument(t, {})
                                IN  WrapSingle([present |-> f.present, t |-> f.t,
                                                errs |-> f.errs], expire_time_offset)
                           ELSE IF ~ValidateTree(t)
                                THEN Raised(SchemaValidationFailed, {})
                                ELSE WrapSingle([present |-> TRUE, t |-> t, errs |-> {}],
                                                expire_time_offset)
                      ELSE WrapSingle([present |-> TRUE, t |-> t, errs |-> {}],
                                      expire_time_offset)

ParseReturn(r, ex) ==
    [outcome |-> "returned", exc |-> None, raisedInTry |-> ex, present |-> r.present,
     t |-> r.t, hint |-> r.hint, errs |-> r.errs]
ParseRaise(r, ex) ==
    [outcome |-> "raised", exc |-> ex, raisedInTry |-> ex, present |-> FALSE,
     t |-> r.t, hint |-> NoHint, errs |-> r.errs]

\* parse_saml_metadata whose schema validation error escapes the except
\* clause: it is raised whatever fail_on_error says.
ParseSamlMetadataSchemaFatal(src, fail_on_error, filter_invalid, validate) ==
    LET r == ParseTry(src, filter_invalid, validate)
    IN  IF r.exc # None
        THEN IF fail_on_error \/ r.exc = SchemaValidationFailed
             THEN ParseRaise(r, r.exc)
             ELSE ParseReturn(Raised(r.exc, r.errs), r.exc)
        ELSE ParseReturn(r, None)

\* parse_saml_metadata whose except clause always swallows.
ParseSamlMetadataSwallow(src, fail_on_error, filter_invalid, validate) ==
    LET r == ParseTry(src, filter_invalid, validate)
    IN  IF r.exc # None
        THEN ParseReturn(Raised(r.exc, r.errs), r.exc)
        ELSE ParseReturn(r, None)

\* parse_saml_metadata(source, key, base_url, fail_on_error, filter_invalid,
\* validate, validation_errors): the try block, then the except clause
\* (raise ex, or return None, None), else return t, expire_time_offset.
ParseSamlMetadata(src, fail_on_error, filter_invalid, validate) ==
    LET r == ParseTry(src, filter_invalid, validate)
    IN  IF r.exc # None
        THEN IF fail_on_error
             THEN ParseRaise(r, r.exc)
             ELSE ParseReturn(Raised(r.exc, r.errs), r.exc)
        ELSE ParseReturn(r, None)

ParseSources == [fault : FaultSteps, doc : ParseDocuments, validUntil : ParseValidUntils]

ParseIdle(src) ==
    [called |-> FALSE, src |-> src, fail_on_error |-> FALSE, filter_invalid |-> FALSE,
     validate |-> FALSE,
     res |-> [outcome |-> "none", exc |-> None, raisedInTry |-> None, present |-> FALSE,
              t |-> [tag |-> OtherTag, heap |-> <<>>, kids |-> <<>>],
              hint |-> NoHint, errs |-> {}]]

ParseInits == { ParseIdle(src) : src \in ParseSources }

\* One call of parse_saml_metadata on the source.
CallParseSamlMetadata ==
    /\ ~pars.called
    /\ \E fail_on_error \in BOOLEAN, filter_invalid \in BOOLEAN, validate \in BOOLEAN :
         pars' = [pars EXCEPT !.called = TRUE,
                              !.fail_on_error = fail_on_error,
                              !.filter_invalid = filter_invalid,
                              !.validate = validate,
                              !.res = ParseSamlMetadata(pars.src, fail_on_error,
                                                        filter_invalid, validate)]
    /\ UNCHANGED <<heap, docs, merge, filt, expi, prov, eattr, eset, expn>>

ParseNext == CallParseSamlMetadata

\* ------------------------------------------------ set_pubinfo, set_reginfo
\* Most calls of the provenance mutators in one run.
MaxCalls == 3

\* An element as the mutators see it: its tag, whether it has an
\* md:Extensions child, and the children of that md:Extensions in order.
\* A child is [kind, who, what]: PublicationInfo (publisher, the set holding
\* creationInstant when set) or RegistrationInfo (registrationAuthority,
\* the languages of its RegistrationPolicy children).
PublicationInfo == "PublicationInfo"
RegistrationInfo == "RegistrationInfo"

PubinfoWrongTag == "I can only set RegistrationAuthority to EntitiesDescriptor elements"
PubinfoNoPublisher == "At least publisher must be provided"
PubinfoPresent == "A PublicationInfo element is already present"
ReginfoWrongTag == "I can only set RegistrationAuthority to EntityDescriptor elements"
ReginfoNoAuthority == "At least authority must be provided"
ReginfoPresent == "A RegistrationInfo element is already present"

\* entity_extensions(e): the md:Extensions child, created when missing.
EntityExtensions(e) == IF e.ext THEN e ELSE [e EXCEPT !.ext = TRUE]

\* ext.find(".//{...}kind") is not None
Finds(e, kind) == \E i \in DOMAIN e.items : e.items[i].kind = kind

\* set_pubinfo without the already-present check.
SetPubinfoNoGuard(e, publisher, creation_instant) ==
    IF e.tag # EntitiesDescriptorTag THEN [e |-> e, exc |-> PubinfoWrongTag]
    ELSE IF publisher = None THEN [e |-> e, exc |-> PubinfoNoPublisher]
    ELSE LET instant == IF creation_instant = None THEN "utcnow" ELSE creation_instant
             ext == EntityExtensions(e)
             pi == [kind |-> PublicationInfo, who |-> publisher,
                    what |-> IF instant = "" THEN {} ELSE {instant}]
         IN  [e |-> [ext EXCEPT !.items = Append(@, pi)], exc |-> None]

\* set_pubinfo(e, publisher, creation_instant): the element afterwards and
\* the message of the MetadataException raised (None: it returned).
SetPubinfo(e, publisher, creation_instant) ==
    IF e.tag # EntitiesDescriptorTag THEN [e |-> e, exc |-> PubinfoWrongTag]
    ELSE IF publisher = None THEN [e |-> e, exc |-> PubinfoNoPublisher]
    ELSE LET instant == IF creation_instant = None THEN "utcnow" ELSE creation_instant
             ext == EntityExtensions(e)
             pi == [kind |-> PublicationInfo, who |-> publisher,
                    what |-> IF instant = "" THEN {} ELSE {instant}]
         IN  IF Finds(ext, PublicationInfo)
             THEN [e |-> ext, exc |-> PubinfoPresent]
             ELSE [e |-> [ext EXCEPT !.items = Append(@, pi)], exc |-> None]

\* set_reginfo(e, policy, authority); policy is the set of languages of the
\* policy dict (None and the empty dict alike give no RegistrationPolicy).
SetReginfo(e, policy, authority) ==
    IF e.tag # EntityDescriptorTag THEN [e |-> e, exc |-> ReginfoWrongTag]
    ELSE IF authority = None THEN [e |-> e, exc |-> ReginfoNoAuthority]
    ELSE LET ext == EntityExtensions(e)
             ri == [kind |-> RegistrationInfo, who |-> authority, what |-> policy]
         IN  IF Finds(ext, RegistrationInfo)
             THEN [e |-> ext, exc |-> ReginfoPresent]
             ELSE [e |-> [ext EXCEPT !.items = Append(@, ri)], exc |-> None]

\* The two targets: an aggregate and a record, as built (no md:Extensions,
\* or an empty one) or as parsed from a source that already carries the
\* provenance element.
Targets == {"aggregate", "record"}
InitialElements(tag, kind) ==
    { [tag |-> tag, ext |-> FALSE, items |-> <<>>],
      [tag |-> tag, ext |-> TRUE, items |-> <<>>],
      [tag |-> tag, ext |-> TRUE,
       items |-> << [kind |-> kind, who |-> "source", what |-> {}] >>] }

Publishers == {None, "p1", "p2"}
CreationInstants == {None, "", "2020-01-01T00:00:00Z"}
Authorities == {None, "r1", "r2"}
Policies == { {}, {"en"} }

NoCall == [n |-> 0, op |-> "none", target |-> "none", who |-> None, exc |-> None]

ProvInits ==
    { [targets |-> [x \in Targets |-> IF x = "aggregate" THEN a ELSE r],
       last |-> NoCall, done |-> {}] :
        a \in InitialElements(EntitiesDescriptorTag, PublicationInfo),
        r \in InitialElements(EntityDescriptorTag, RegistrationInfo) }

CallSetPubinfo ==
    /\ prov.last.n < MaxCalls
    /\ \E x \in Targets, publisher \in Publishers, creation_instant \in CreationInstants :
         LET r == SetPubinfo(prov.targets[x], publisher, creation_instant)
         IN  prov' = [targets |-> [prov.targets EXCEPT ![x] = r.e],
                      last |-> [n |-> prov.last.n + 1, op |-> "set_pubinfo", target |-> x,
                                who |-> publisher, exc |-> r.exc],
                      done |-> IF r.exc = None
                               THEN prov.done \cup { <<"set_pubinfo", x>> }
                               ELSE prov.done]
    /\ UNCHANGED <<heap, docs, merge, filt, pars, expi, eattr, eset, expn>>

CallSetReginfo ==
    /\ prov.last.n < MaxCalls
    /\ \E x \in Targets, policy \in Policies, authority \in Authorities :
         LET r == SetReginfo(prov.targets[x], policy, authority)
         IN  prov' = [targets |-> [prov.targets EXCEPT ![x] = r.e],
                      last |-> [n |-> prov.last.n + 1, op |-> "set_reginfo", target |-> x,
                                who |-> authority, exc |-> r.exc],
                      done |-> IF r.exc = None
                               THEN prov.done \cup { <<"set_reginfo", x>> }
                               ELSE prov.done]
    /\ UNCHANGED <<heap, docs, merge, filt, pars, expi, eattr, eset, expn>>

ProvNext == CallSetPubinfo \/ CallSetReginfo

\* -------------------------------------------------- set_entity_attributes
\* Most calls of set_entity_attributes in one run.
MaxAttributeCalls == 2

\* A record as set_entity_attributes sees it: its tag, whether it has an
\* md:Extensions child (ext), whether that holds an mdattr:EntityAttributes
\* (ea), and the saml:Attribute subtrees of the EntityAttributes in document
\* order, each [NameFormat, Name, values]: values are the texts of its
\* AttributeValue children in order.
NF_URI == "urn:oasis:names:tc:SAML:2.0:attrname-format:uri"
NF_BASIC == "urn:oasis:names:tc:SAML:2.0:attrname-format:basic"
NameFormats == {NF_URI, NF_BASIC}
AttrNames == {"n1", "n2"}
AttrValues == {"v1", "v2"}

AttributesWrongTag == "I can only add EntityAttribute(s) to EntityDescriptor elements"

\* _entity_attributes(e): the EntityAttributes of the record's Extensions,
\* both created when missing.
EntityAttributesOf(e) ==
    LET ext == EntityExtensions(e)
    IN  IF ext.ea THEN ext ELSE [ext EXCEPT !.ea = TRUE]

\* The subtrees the xpath of _eattribute selects, in document order.
XPathAttribute(e, attr, nf) ==
    { i \in DOMAIN e.attrs : e.attrs[i].NameFormat = nf /\ e.attrs[i].Name = attr }

\* _eattribute that never looks for an existing subtree.
EattributeAlwaysNew(e, attr, nf) ==
    LET ea == EntityAttributesOf(e)
    IN  [e |-> [ea EXCEPT !.attrs = Append(@, [NameFormat |-> nf, Name |-> attr,
                                               values |-> <<>>])],
         a |-> Len(ea.attrs) + 1]

\* _eattribute(e, attr, nf): the record afterwards and the position of the
\* Attribute subtree it returns.
Eattribute(e, attr, nf) ==
    LET ea == EntityAttributesOf(e)
        a == XPathAttribute(ea, attr, nf)
    IN  IF a = {}
        THEN [e |-> [ea EXCEPT !.attrs = Append(@, [NameFormat |-> nf, Name |-> attr,
                                                    values |-> <<>>])],
              a |-> Len(ea.attrs) + 1]
        ELSE [e |-> ea, a |-> CHOOSE i \in a : \A j \in a : i <= j]

\* for attr, value in d.iteritems(): ...; items is d in the order iteritems
\* yields it.
RECURSIVE SetEachAttribute(_, _, _)
SetEachAttribute(e, items, nf) ==
    IF items = <<>> THEN e
    ELSE LET attr == Head(items)[1]
             value == Head(items)[2]
             r == Eattribute(e, attr, nf)
         IN  SetEachAttribute([r.e EXCEPT !.attrs[r.a].values = Append(@, value)],
                              Tail(items), nf)

\* set_entity_attributes(e, d, nf): the record afterwards and the message of
\* the MetadataException raised (None: it returned).
SetEntityAttributes(e, items, nf) ==
    IF e.tag # EntityDescriptorTag
    THEN [e |-> e, exc |-> AttributesWrongTag]
    ELSE [e |-> SetEachAttribute(e, items, nf), exc |-> None]

\* The dicts handed in, each in every order iteritems may yield it: a dict
\* holds a name at most once.
AttributeDicts ==
    { d \in SeqsUpTo(AttrNames \X AttrValues, Cardinality(AttrNames)) :
        \A i, j \in DOMAIN d : i # j => d[i][1] # d[j][1] }

\* The targets: a record as built, with an empty Extensions, with an empty
\* EntityAttributes, or parsed with one Attribute already in it; and an
\* aggregate.
AttributeTargets ==
    { [tag |-> EntityDescriptorTag, ext |-> FALSE, ea |-> FALSE, attrs |-> <<>>],
      [tag |-> EntityDescriptorTag, ext |-> TRUE, ea |-> FALSE, attrs |-> <<>>],
      [tag |-> EntityDescriptorTag, ext |-> TRUE, ea |-> TRUE, attrs |-> <<>>],
      [tag |-> EntityDescriptorTag, ext |-> TRUE, ea |-> TRUE,
       attrs |-> << [NameFormat |-> NF_URI, Name |-> "n1", values |-> <<"v0">>] >>],
      [tag |-> EntitiesDescriptorTag, ext |-> FALSE, ea |-> FALSE, attrs |-> <<>>] }

\* eattr: the record, the record as it was before the first call, the
\* writes of the calls that returned ([Name, NameFormat, value], in call
\* order), the number of calls and what the last one raised.
AttrIdle(e) == [e |-> e, initial |-> e, log |-> <<>>, calls |-> 0, exc |-> None]
AttrInits == { AttrIdle(e) : e \in AttributeTargets }

RECURSIVE Writes(_, _)
Writes(items, nf) ==
    IF items = <<>> THEN <<>>
    ELSE << [Name |-> Head(items)[1], NameFormat |-> nf, value |-> Head(items)[2]] >>
         \o Writes(Tail(items), nf)

CallSetEntityAttributes ==
    /\ eattr.calls < MaxAttributeCalls
    /\ \E d \in AttributeDicts, nf \in NameFormats :
         LET r == SetEntityAttributes(eattr.e, d, nf)
         IN  eattr' = [eattr EXCEPT !.e = r.e, !.calls = @ + 1, !.exc = r.exc,
                                    !.log = IF r.exc = None THEN @ \o Writes(d, nf) ELSE @]
    /\ UNCHANGED <<heap, docs, merge, filt, pars, expi, prov, eset, expn>>

AttrNext == CallSetEntityAttributes

\* -------------------------------------------------------------- EntitySet
\* Most add and discard operations on one EntitySet.
MaxSetOps == 3

\* The records handed to an EntitySet: value.get('entityID') (None when the
\* attribute is missing) and which record it is.
SetBodies == {"x", "y"}
SetRecords == [eid : EntityIDs \cup {None}, body : SetBodies]

\* self._e, a dict: the sequence of its [key, value] entries in the order
\* values() yields them.  The order of a dict is that of its hash table: a
\* new key lands anywhere among the others, an assignment to a key the dict
\* holds and a deletion leave the other entries where they are.
HasKey(e, k) == \E i \in DOMAIN e : e[i].key = k

InsertAt(e, i, x) == SubSeq(e, 1, i - 1) \o <<x>> \o SubSeq(e, i, Len(e))

\* self._e[k] = v: every dict the assignment may leave.
DictAssign(e, k, v) ==
    IF HasKey(e, k)
    THEN { [i \in DOMAIN e |-> IF e[i].key = k THEN [key |-> k, value |-> v] ELSE e[i]] }
    ELSE { InsertAt(e, i, [key |-> k, value |-> v]) : i \in 1..(Len(e) + 1) }

\* del self._e[k]
DictDel(e, k) == SelectSeq(e, LAMBDA x : x.key # k)

\* EntitySet.add(value)
EntitySetAdd(e, value) == DictAssign(e, value.eid, value)

\* EntitySet.discard(value)
EntitySetDiscard(e, value) ==
    LET entity_id == value.eid
    IN  IF HasKey(e, entity_id) THEN DictDel(e, entity_id) ELSE e

\* EntitySet.__iter__: the records in the order they are yielded.
EntitySetIter(e) == [i \in DOMAIN e |-> e[i].value]

\* EntitySet.__len__
EntitySetLen(e) == Cardinality({ e[i].key : i \in DOMAIN e })

\* EntitySet.__contains__(item)
EntitySetContains(e, item) == item.eid \in { e[i].key : i \in DOMAIN e }

\* EntitySet(initial): every dict the adds of __init__ may leave.
RECURSIVE EntitySetInit(_, _)
EntitySetInit(es, initial) ==
    IF initial = <<>> THEN es
    ELSE EntitySetInit(UNION { EntitySetAdd(e, Head(initial)) : e \in es }, Tail(initial))

\* eset: the dict, the last operation with its argument and the dict before
\* it, and the number of operations so far.
NoSetOp == [op |-> "none", value |-> [eid |-> None, body |-> "x"], before |-> <<>>]
EntitySetIdle(e) == [e |-> e, last |-> NoSetOp, ops |-> 0]
EntitySetInits ==
    { EntitySetIdle(e) :
        e \in UNION { EntitySetInit({<<>>}, initial) : initial \in SeqsUpTo(SetRecords, 1) } }

CallAdd ==
    /\ eset.ops < MaxSetOps
    /\ \E value \in SetRecords : \E e \in EntitySetAdd(eset.e, value) :
         eset' = [e |-> e, ops |-> eset.ops + 1,
                  last |-> [op |-> "add", value |-> value, before |-> eset.e]]
    /\ UNCHANGED <<heap, docs, merge, filt, pars, expi, prov, eattr, expn>>

CallDiscard ==
    /\ eset.ops < MaxSetOps
    /\ \E value \in SetRecords :
         eset' = [e |-> EntitySetDiscard(eset.e, value), ops |-> eset.ops + 1,
                  last |-> [op |-> "discard", value |-> value, before |-> eset.e]]
    /\ UNCHANGED <<heap, docs, merge, filt, pars, expi, prov, eattr, expn>>

EntitySetNext == CallAdd \/ CallDiscard

\* ------------------------------------------------------ specifications
ExpirationOff ==
    ExpirationIdle([tag |-> OtherTag, validUntil |-> NoValidUntil, cacheDuration |-> None],
                   [respect_cache_duration |-> FALSE, default_cache_duration |-> "PT1H"])
FilterOff == FilterIdle([tag |-> EntitiesDescriptorTag, heap |-> <<>>, kids |-> <<>>])
ProvOff ==
    [targets |-> [x \in Targets |->
                    [tag |-> IF x = "aggregate" THEN EntitiesDescriptorTag
                             ELSE EntityDescriptorTag,
                     ext |-> FALSE, items |-> <<>>]],
     last |-> NoCall, done |-> {}]
AttrOff == AttrIdle([tag |-> EntitiesDescriptorTag, ext |-> FALSE, ea |-> FALSE, attrs |-> <<>>])
EntitySetOff == EntitySetIdle(<<>>)
ExpnOff == ExpnIdle
ParseOff ==
    ParseIdle([fault |-> "none", doc |-> [tag |-> OtherTag, heap |-> <<>>, kids |-> <<>>],
               validUntil |-> NoValidUntil])

InitMerge ==
    /\ heap \in SourceHeaps
    /\ docs = SourceDocs
    /\ merge = MergeIdle
    /\ filt = FilterOff
    /\ pars = ParseOff
    /\ expi = ExpirationOff
    /\ prov = ProvOff
    /\ eattr = AttrOff
    /\ eset = EntitySetOff
    /\ expn = ExpnOff

InitFilter ==
    /\ heap = <<>>
    /\ docs = <<>>
    /\ merge = MergeIdle
    /\ filt \in FilterInits
    /\ pars = ParseOff
    /\ expi = ExpirationOff
    /\ prov = ProvOff
    /\ eattr = AttrOff
    /\ eset = EntitySetOff
    /\ expn = ExpnOff

InitParse ==
    /\ heap = <<>>
    /\ docs = <<>>
    /\ merge = MergeIdle
    /\ filt = FilterOff
    /\ pars \in ParseInits
    /\ expi = ExpirationOff
    /\ prov = ProvOff
    /\ eattr = AttrOff
    /\ eset = EntitySetOff
    /\ expn = ExpnOff

InitExpiration ==
    /\ heap = <<>>
    /\ docs = <<>>
    /\ merge = MergeIdle
    /\ filt = FilterOff
    /\ pars = ParseOff
    /\ expi \in ExpirationInits
    /\ prov = ProvOff
    /\ eattr = AttrOff
    /\ eset = EntitySetOff
    /\ expn = ExpnOff

InitProvenance ==
    /\ heap = <<>>
    /\ docs = <<>>
    /\ merge = MergeIdle
    /\ filt = FilterOff
    /\ pars = ParseOff
    /\ expi = ExpirationOff
    /\ prov \in ProvInits
    /\ eattr = AttrOff
    /\ eset = EntitySetOff
    /\ expn = ExpnOff

InitAttributes ==
    /\ heap = <<>>
    /\ docs = <<>>
    /\ merge = MergeIdle
    /\ filt = FilterOff
    /\ pars = ParseOff
    /\ expi = ExpirationOff
    /\ prov = ProvOff
    /\ eattr \in AttrInits
    /\ eset = EntitySetOff
    /\ expn = ExpnOff

InitEntitySet ==
    /\ heap = <<>>
    /\ docs = <<>>
    /\ merge = MergeIdle
    /\ filt = FilterOff
    /\ pars = ParseOff
    /\ expi = ExpirationOff
    /\ prov = ProvOff
    /\ eattr = AttrOff
    /\ eset \in EntitySetInits
    /\ expn = ExpnOff

SpecMerge == InitMerge /\ [][MergeNext]_vars

SpecFilter == InitFilter /\ [][FilterNext]_vars

SpecParse == InitParse /\ [][ParseNext]_vars

SpecExpiration == InitExpiration /\ [][ExpirationNext]_vars

SpecProvenance == InitProvenance /\ [][ProvNext]_vars

SpecAttributes == InitAttributes /\ [][AttrNext]_vars

SpecEntitySet == InitEntitySet /\ [][EntitySetNext]_vars

\* ------------------------------------------------------ merge: claims
\* s with every later occurrence of an already-seen entityID removed.
DedupFirstSeen(s) ==
    LET keep == { i \in DOMAIN s : \A j \in 1..(i - 1) : s[j].eid # s[i].eid }
        RECURSIVE Pick(_)
        Pick(i) == IF i > Len(s) THEN <<>>
                   ELSE (IF i \in keep THEN <<s[i]>> ELSE <<>>) \o Pick(i + 1)
    IN  Pick(1)

Returned == merge.called /\ merge.raised = None

\* C1: when every resolved record carries an entityID, the members of the
\* returned container are the resolved records with every later occurrence
\* of an already-seen entityID removed: one member per distinct entityID,
\* in first-occurrence order, the first record met being the one kept.
C1_FirstSeenWins ==
    (Returned /\ merge.present /\ \A i \in DOMAIN merge.resvals : merge.resvals[i].eid # None)
        => /\ merge.kidvals = DedupFirstSeen(merge.resvals)
           /\ Len(merge.kidvals)
                = Cardinality({ merge.resvals[i].eid : i \in DOMAIN merge.resvals })

\* C1 witness: a merge of two groups that met an entityID of the first
\* group again in the second, and kept two distinct members.
C1_Witness ==
    /\ Returned /\ merge.present /\ merge.muts = 0
    /\ \A i \in DOMAIN merge.resvals : merge.resvals[i].eid # None
    /\ Len(merge.entities) = 2
    /\ merge.entities[1].kind = "group" /\ merge.entities[2].kind = "group"
    /\ merge.entities[1].n # merge.entities[2].n
    /\ Len(merge.kidvals) = 2
    /\ Len(merge.resvals) = 3
    /\ merge.resvals[1].eid # merge.resvals[2].eid
    /\ merge.resvals[2].eid = merge.resvals[3].eid
    /\ merge.resvals[2].body # merge.resvals[3].body

\* C2: a container returned by entitiesdescriptor has at least one member
\* (zero accepted records give None).
C2_NeverEmptyContainer ==
    (Returned /\ merge.present) => Len(merge.kids) > 0

\* C8: with copy=true the merge leaves the source records and documents as
\* they were, and no later mutation of a source record or document changes
\* a member of the returned aggregate.
C8_CopyIsIndependent ==
    [][ /\ (~merge.called /\ merge'.called /\ merge'.copy)
            => /\ docs' = docs
               /\ \A o \in DOMAIN heap : heap'[o] = heap[o]
        /\ (merge.present /\ merge.copy)
            => /\ merge'.kids = merge.kids
               /\ \A i \in DOMAIN merge.kids : heap'[merge.kids[i]] = heap[merge.kids[i]]
      ]_vars

\* C8 witness: a copying merge returned an aggregate, and afterwards the
\* source record of one of its members was edited in place.
C8_Witness ==
    /\ merge.present /\ merge.copy
    /\ \E i \in DOMAIN merge.kids :
         /\ heap[merge.from[i]].rev > 0
         /\ heap[merge.kids[i]] = merge.kidvals[i]
         /\ heap[merge.kids[i]].rev = 0

\* ----------------------------------------------------- filter: claims
\* The failing records of the filtered document.
Failing == { i \in DOMAIN filt.doc.heap : ~filt.doc.heap[i].valid }
IsValidId(i) == filt.doc.heap[i].valid
PartlyInvalidContainer ==
    /\ filt.called
    /\ filt.doc.tag = EntitiesDescriptorTag
    /\ Failing # {}
    /\ Failing # DOMAIN filt.doc.heap

\* C6 as stated: after filtering a container in which some but not all
\* records fail, the container holds exactly the valid records in document
\* order and the error map has exactly one entry per failing record, keyed
\* by that record's entityID.
C6_OneEntryPerFailingRecord ==
    PartlyInvalidContainer
        => /\ filt.present
           /\ filt.kids = SelectSeq(filt.doc.kids, IsValidId)
           /\ { x.key : x \in filt.errs } = { filt.doc.heap[i].eid : i \in Failing }
           /\ Cardinality(filt.errs) = Cardinality(Failing)

\* C6 amended: the container holds exactly the valid records in document
\* order, and the error map has exactly one entry per distinct entityID of
\* the failing records (failing records that share an entityID, or that
\* carry none, share one entry: the diagnostic of the last of them).
C6_OneEntryPerFailingId ==
    PartlyInvalidContainer
        => /\ filt.present
           /\ filt.kids = SelectSeq(filt.doc.kids, IsValidId)
           /\ { x.key : x \in filt.errs } = { filt.doc.heap[i].eid : i \in Failing }
           /\ Cardinality(filt.errs)
                = Cardinality({ filt.doc.heap[i].eid : i \in Failing })
           /\ \A x \in filt.errs :
                \E i \in Failing :
                    /\ filt.doc.heap[i].eid = x.key
                    /\ filt.doc.heap[i].body = x.diag
                    /\ \A j \in Failing : filt.doc.heap[j].eid = x.key => j <= i

\* C6 witness: three records, the middle one failing: two records and one
\* error entry, keyed by the failing record's entityID, come out.
C6_Witness ==
    /\ PartlyInvalidContainer
    /\ Len(filt.doc.kids) = 3
    /\ Failing = {2}
    /\ filt.present
    /\ filt.kids = <<1, 3>>
    /\ filt.errs = { [key |-> filt.doc.heap[2].eid, diag |-> 2] }
    /\ filt.doc.heap[2].eid # None

\* C7: filtering a document that holds records, all of them invalid, yields
\* None, for a single failing record at the root and for a container all of
\* whose records fail.
C7_AllInvalidYieldsAbsent ==
    (filt.called /\ filt.doc.heap # <<>> /\ Failing = DOMAIN filt.doc.heap)
        => ~filt.present

\* ------------------------------------------------- expiration: claims
\* The result policy of C9: metadata_expiration returns, in this order of
\* precedence, (a) with
\* validUntil present, the whole seconds of validUntil minus the whole
\* seconds of now (negative when validUntil is past), whatever
\* cacheDuration and respect_cache_duration are; (b) else, with
\* respect_cache_duration, the declared cacheDuration, or the configured
\* default when it is missing or empty; (c) else no hint; no hint for any
\* other root; and a call changes neither the root nor the configuration.
C9_Result ==
    expi.called =>
        LET relt == expi.root
            r == expi.result
        IN  IF relt.tag \notin {EntityDescriptorTag, EntitiesDescriptorTag}
            THEN ~r.hint
            ELSE IF relt.validUntil.has
            THEN r.hint /\ r.delta = Seconds(relt.validUntil.s - expi.now.s)
            ELSE IF expi.config.respect_cache_duration
            THEN /\ r.hint
                 /\ relt.cacheDuration \in DurationLiterals
                        => r.delta = Duration2Timedelta(relt.cacheDuration)
                 /\ relt.cacheDuration \in {None, ""}
                        => r.delta = Duration2Timedelta(expi.config.default_cache_duration)
            ELSE ~r.hint

\* C9: every call of metadata_expiration returns what the policy above
\* prescribes (validUntil first, then a respected cacheDuration or the
\* default, else no hint), and no call changes the root or the
\* configuration.
C9_Expiration ==
    /\ []C9_Result
    /\ [][expi'.root = expi.root /\ expi'.config = expi.config]_vars

\* C9 witness: validUntil is an hour after now, both with the same nonzero
\* microseconds, a different cacheDuration is declared and respected, and
\* the call returned exactly 3600 seconds.
C9_Witness ==
    /\ expi.called
    /\ expi.root.tag = EntitiesDescriptorTag
    /\ expi.root.validUntil.has
    /\ expi.root.validUntil.s = expi.now.s + 3600
    /\ expi.root.validUntil.us = expi.now.us
    /\ expi.now.us # 0
    /\ expi.root.cacheDuration = "PT2H"
    /\ expi.config.respect_cache_duration
    /\ expi.result = [hint |-> TRUE, delta |-> Seconds(3600)]

\* ------------------------------------------------------ parser: claims
\* C3: an exception raised at any step of the try block (parse, expiration,
\* signature check, ID stripping, validation, wrapping of a single record)
\* is re-raised when fail_on_error is true; when it is false the call
\* returns (None, None) and raises nothing.
C3_ErrorPolicy ==
    (pars.called /\ pars.res.raisedInTry # None)
        => IF pars.fail_on_error
           THEN pars.res.outcome = "raised" /\ pars.res.exc = pars.res.raisedInTry
           ELSE /\ pars.res.outcome = "returned"
                /\ pars.res.exc = None
                /\ ~pars.res.present
                /\ ~pars.res.hint.hint

\* C3 witness: a bad signature on a document that carries validUntil, with
\* fail_on_error off: the call returned (None, None).
C3_Witness ==
    /\ pars.called
    /\ pars.src.fault = "signature"
    /\ pars.src.validUntil.has
    /\ pars.src.doc.heap # <<>>
    /\ ~pars.fail_on_error
    /\ pars.res.raisedInTry = "SignatureError"
    /\ pars.res.outcome = "returned"
    /\ ~pars.res.present /\ ~pars.res.hint.hint

\* A call in whole-document mode on a source that parses and verifies and
\* whose document fails schema validation.
WholeDocumentFailure ==
    /\ pars.called
    /\ pars.validate /\ ~pars.filter_invalid
    /\ pars.src.fault = "none"
    /\ ~ValidateTree(pars.src.doc)

\* C4 as stated: in whole-document mode a schema validation failure is
\* raised to the caller whatever fail_on_error is.
C4_SchemaErrorAlwaysRaised ==
    WholeDocumentFailure
        => pars.res.outcome = "raised" /\ pars.res.exc = SchemaValidationFailed

\* C4 amended: in whole-document mode a schema validation failure is raised
\* to the caller when fail_on_error is true; when fail_on_error is false it
\* is swallowed like any other exception and the call returns (None, None).
C4_SchemaErrorFollowsPolicy ==
    WholeDocumentFailure
        => /\ pars.res.raisedInTry = SchemaValidationFailed
           /\ pars.fail_on_error
                => pars.res.outcome = "raised" /\ pars.res.exc = SchemaValidationFailed
           /\ ~pars.fail_on_error
                => /\ pars.res.outcome = "returned"
                   /\ ~pars.res.present
                   /\ ~pars.res.hint.hint

\* C4 witness: a container with a valid and an invalid record, whole-document
\* mode, fail_on_error off: the schema error was swallowed.
C4_Witness ==
    /\ WholeDocumentFailure
    /\ pars.src.doc.tag = EntitiesDescriptorTag
    /\ Len(pars.src.doc.kids) = 2
    /\ pars.src.doc.heap[1].valid /\ ~pars.src.doc.heap[2].valid
    /\ ~pars.fail_on_error
    /\ pars.res.outcome = "returned"
    /\ ~pars.res.present

\* C5: with validate=false a source that parses and verifies comes back as
\* a container holding all its records, valid or not, and the call never
\* ends with a schema validation error, for a container root and for a
\* single record root (which is wrapped).  Stated for documents whose
\* records all carry an entityID.
C5_NoSchemaCheckWithoutValidate ==
    (/\ pars.called
     /\ ~pars.validate
     /\ pars.src.fault = "none"
     /\ pars.src.doc.tag \in {EntityDescriptorTag, EntitiesDescriptorTag}
     /\ \A i \in DOMAIN pars.src.doc.heap : pars.src.doc.heap[i].eid # None)
        => /\ pars.res.outcome = "returned"
           /\ pars.res.raisedInTry = None
           /\ pars.res.present
           /\ pars.res.t.tag = EntitiesDescriptorTag
           /\ [i \in DOMAIN pars.res.t.kids |-> pars.res.t.heap[pars.res.t.kids[i]].body]
                = [i \in DOMAIN pars.src.doc.heap |-> pars.src.doc.heap[i].body]

\* -------------------------------------------------- provenance: claims
CountOf(x, kind) ==
    Cardinality({ i \in DOMAIN prov.targets[x].items : prov.targets[x].items[i].kind = kind })

\* The step is a call of op on x, after a call of op on x has succeeded.
LaterCall(op, x) ==
    /\ <<op, x>> \in prov.done
    /\ prov'.last.n = prov.last.n + 1
    /\ prov'.last.op = op
    /\ prov'.last.target = x

\* C10 as stated: after the first successful set_pubinfo on an aggregate
\* (set_reginfo on a record), every later call of the same mutator on the
\* same target fails with the already-present error and leaves the target
\* unchanged.
C10_LaterCallsAlreadyPresent ==
    [][ \A x \in Targets :
          /\ LaterCall("set_pubinfo", x)
               => prov'.last.exc = PubinfoPresent /\ prov'.targets[x] = prov.targets[x]
          /\ LaterCall("set_reginfo", x)
               => prov'.last.exc = ReginfoPresent /\ prov'.targets[x] = prov.targets[x]
      ]_vars

\* C10 amended: after the first successful set_pubinfo on an aggregate
\* (set_reginfo on a record), every later call of the same mutator on the
\* same target fails and leaves the target unchanged: with the
\* already-present error when it names a publisher (an authority), with the
\* missing-argument error when it names none; a target that started with at
\* most one PublicationInfo (RegistrationInfo) never holds more than one.
C10_OneShot ==
    /\ [][ \A x \in Targets :
             /\ LaterCall("set_pubinfo", x)
                  => /\ prov'.targets[x] = prov.targets[x]
                     /\ prov'.last.exc = IF prov'.last.who = None
                                         THEN PubinfoNoPublisher ELSE PubinfoPresent
             /\ LaterCall("set_reginfo", x)
                  => /\ prov'.targets[x] = prov.targets[x]
                     /\ prov'.last.exc = IF prov'.last.who = None
                                         THEN ReginfoNoAuthority ELSE ReginfoPresent
         ]_vars
    /\ [](\A x \in Targets :
            CountOf(x, PublicationInfo) <= 1 /\ CountOf(x, RegistrationInfo) <= 1)

\* C10 witness: set_pubinfo succeeded on the aggregate, and a later
\* set_pubinfo on it that named a publisher failed with the already-present
\* error.
C10_Witness ==
    /\ <<"set_pubinfo", "aggregate">> \in prov.done
    /\ prov.last.n > 1
    /\ prov.last.op = "set_pubinfo"
    /\ prov.last.target = "aggregate"
    /\ prov.last.who = "p2"
    /\ prov.last.exc = PubinfoPresent
    /\ CountOf("aggregate", PublicationInfo) = 1
    /\ prov.targets["aggregate"].items[1].who = "p1"

\* ------------------------------------------- set_entity_attributes: claims
\* The values of the Attribute subtrees of e for the pair (attr, nf), one
\* sequence per subtree.
SubtreesOf(e, attr, nf) ==
    { i \in DOMAIN e.attrs : e.attrs[i].Name = attr /\ e.attrs[i].NameFormat = nf }

\* The values the calls so far wrote for the pair, in call order.
WrittenFor(attr, nf) ==
    LET w == SelectSeq(eattr.log, LAMBDA x : x.Name = attr /\ x.NameFormat = nf)
    IN  [i \in DOMAIN w |-> w[i].value]

\* The values the record held for the pair before the first call.
InitialFor(attr, nf) ==
    LET is == SubtreesOf(eattr.initial, attr, nf)
    IN  IF is = {} THEN <<>> ELSE eattr.initial.attrs[CHOOSE i \in is : TRUE].values

\* C11: after any sequence of set_entity_attributes calls on one record
\* there is at most one Attribute subtree per (Name, NameFormat) pair; the
\* subtree exists only once the pair was written (or the record came with
\* it), and its AttributeValue children are the values the record came
\* with followed by every value written for the pair, in call order.
C11_ValuesAccumulate ==
    \A attr \in AttrNames, nf \in NameFormats :
        LET is == SubtreesOf(eattr.e, attr, nf)
        IN  /\ Cardinality(is) <= 1
            /\ is # {} <=> (SubtreesOf(eattr.initial, attr, nf) # {}
                            \/ WrittenFor(attr, nf) # <<>>)
            /\ \A i \in is :
                   eattr.e.attrs[i].values = InitialFor(attr, nf) \o WrittenFor(attr, nf)

\* C11 witness: two calls on a record that came with one value for
\* (n1, uri); both wrote that pair, with different values, and the second
\* also created the subtree of another pair.
C11_Witness ==
    /\ eattr.calls = MaxAttributeCalls
    /\ eattr.exc = None
    /\ Len(eattr.e.attrs) = 2
    /\ eattr.e.attrs[1] = [NameFormat |-> NF_URI, Name |-> "n1",
                           values |-> <<"v0", "v2", "v1">>]
    /\ eattr.e.attrs[2].Name = "n2"
    /\ eattr.e.attrs[2].values = <<"v1">>
    /\ Len(eattr.log) = 3

\* ----------------------------------------------------- EntitySet: claims
\* The last operation added a record that has an identifier, one the set
\* already held.
AddOfHeldIdentifier ==
    /\ eset.last.op = "add"
    /\ eset.last.value.eid # None
    /\ EntitySetContains(eset.last.before, eset.last.value)

\* C12: an EntitySet holds at most one record per identifier after any
\* sequence of add and discard, and an add of a record whose identifier is
\* already in the set changes nothing: the record stored for the
\* identifier, the length and the iteration order are as before the add.
C12_AddOfHeldIdentifierIsNoOp ==
    /\ \A i, j \in DOMAIN eset.e : eset.e[i].key = eset.e[j].key => i = j
    /\ AddOfHeldIdentifier =>
           /\ EntitySetLen(eset.e) = EntitySetLen(eset.last.before)
           /\ EntitySetIter(eset.e) = EntitySetIter(eset.last.before)

\* ------------------------------------------- expiration calculators: claims
\* C13: metadata_expiration and expiration are one operation: called on the
\* same root, under the same configuration and at the same instant, they
\* return the same result, whatever the root's shape, validUntil and
\* cacheDuration (missing, empty or set) and the configuration are.
C13_SameResult ==
    (expi.called /\ expn.called /\ expi.now = expn.now)
        => expi.result = expn.result

\* ------------------------------------------- parser: well-formed pairs
\* C14: parse_saml_metadata returns only well-formed pairs: whenever it
\* returns no document it returns no expiration hint either, be it after a
\* swallowed exception or after the filter rejected a single-record
\* document whose record fails validation.
C14_AbsentDocumentHasNoHint ==
    (pars.called /\ pars.res.outcome = "returned" /\ ~pars.res.present)
        => ~pars.res.hint.hint

====
